---- MODULE Spec2Model ----
(***************************************************************************)
(* Model of the import_books management command                           *)
(* (library/management/commands/import_books.py) and of the Category and  *)
(* Book tables it reconciles (library/models.py).                         *)
(*                                                                         *)
(* Text is a sequence of one-character strings, so that str.strip() and   *)
(* int() are computed rather than assumed.  The catalog is the pair       *)
(* (cats, books): the set of Category names and a function from the       *)
(* book_code values stored to the Book rows.                               *)
(***************************************************************************)
EXTENDS Integers, Sequences, FiniteSets, TLC

\* Bounds of the model.
MaxFiles == 2      \* files named on the command line
MaxRows  == 3      \* data rows read in one invocation, over all files

-----------------------------------------------------------------------------
(* Text helpers: str.strip() and int()                                     *)

Whitespace == {" "}
Digits == {"0", "1", "2", "3", "4", "5", "6", "7", "8", "9"}

DigitVal(d) ==
    CASE d = "0" -> 0 [] d = "1" -> 1 [] d = "2" -> 2 [] d = "3" -> 3
      [] d = "4" -> 4 [] d = "5" -> 5 [] d = "6" -> 6 [] d = "7" -> 7
      [] d = "8" -> 8 [] d = "9" -> 9

RECURSIVE LStrip(_)
LStrip(s) ==
    IF s # <<>> /\ Head(s) \in Whitespace THEN LStrip(Tail(s)) ELSE s

RECURSIVE RStrip(_)
RStrip(s) ==
    IF s # <<>> /\ s[Len(s)] \in Whitespace
    THEN RStrip(SubSeq(s, 1, Len(s) - 1))
    ELSE s

\* str.strip()
Strip(s) == RStrip(LStrip(s))

AllDigits(s) == Len(s) >= 1 /\ \A i \in 1..Len(s) : s[i] \in Digits

\* the texts int() accepts: an optional sign followed by decimal digits
IsNumeral(s) ==
    /\ s # <<>>
    /\ IF Head(s) \in {"+", "-"} THEN AllDigits(Tail(s)) ELSE AllDigits(s)

RECURSIVE DecimalValue(_)
DecimalValue(s) ==
    IF s = <<>> THEN 0
    ELSE 10 * DecimalValue(SubSeq(s, 1, Len(s) - 1)) + DigitVal(s[Len(s)])

\* int(s) for a text int() accepts
IntOf(s) ==
    IF Head(s) = "-" THEN 0 - DecimalValue(Tail(s))
    ELSE IF Head(s) = "+" THEN DecimalValue(Tail(s))
    ELSE DecimalValue(s)

\* Python's None (no text is a sequence holding a longer string)
None == <<"None">>

-----------------------------------------------------------------------------
(* Inputs: the rows csv.DictReader can yield                               *)

Row(cat, code, title, author, copies) ==
    [CATEGORY |-> cat, BOOK_CODE |-> code, BOOK_TITLE |-> title,
     BOOK_AUTHOR |-> author, NO_OF_COPIES |-> copies]

RawRows ==
    { Row(<<" ", "F">>, <<"1", " ">>, <<" ", "D", " ">>, <<"H", " ">>, <<" ", "3">>),
      Row(<<"S">>, <<"1">>, <<"E">>, <<>>, <<"x">>),
      Row(<<"F">>, <<"1">>, <<" ">>, <<"H">>, <<"3">>),
      Row(<<"S", " ">>, <<"2">>, <<>>, <<>>, <<"5">>),
      Row(<<"S">>, <<"2">>, <<"E">>, <<" ">>, <<>>),
      Row(<<"F">>, <<"2">>, <<"D">>, <<"H">>, <<"-", "2">>) }

\* Catalogs an invocation can start from.
EmptyBooks == [c \in {} |-> None]

InitialCatalogs ==
    { [cats |-> {}, books |-> EmptyBooks],
      [cats |-> {<<"F">>, <<"S">>},
       books |-> (<<"1">> :> [category |-> <<"F">>, title |-> <<"D">>,
                              authors |-> <<"H">>, number_of_copies |-> 3])] }

-----------------------------------------------------------------------------
(* The row pipeline of Command.handle                                      *)

\* Normalize with line 75 reading the title without .strip()
NormalizeTitleUnstripped(row) ==
    [category_name    |-> Strip(row.CATEGORY),
     book_code        |-> Strip(row.BOOK_CODE),
     title            |-> row.BOOK_TITLE,
     authors          |-> IF row.BOOK_AUTHOR # <<>> THEN Strip(row.BOOK_AUTHOR)
                          ELSE None,
     number_of_copies |-> Strip(row.NO_OF_COPIES)]

\* lines 73-77: the five fields as read from the row
Normalize(row) ==
    [category_name    |-> Strip(row.CATEGORY),
     book_code        |-> Strip(row.BOOK_CODE),
     title            |-> Strip(row.BOOK_TITLE),
     authors          |-> IF row.BOOK_AUTHOR # <<>> THEN Strip(row.BOOK_AUTHOR)
                          ELSE None,
     number_of_copies |-> Strip(row.NO_OF_COPIES)]

\* lines 89-93: int(number_of_copies), 1 when int() raises ValueError
CopiesOf(number_of_copies) ==
    IF IsNumeral(number_of_copies) THEN IntOf(number_of_copies) ELSE 1

\* number_of_copies declared as a plain IntegerField: no database check
IntegerField(n) == n \in Int

\* models.py line 14: the column of a PositiveIntegerField carries the
\* database check number_of_copies >= 0; a write that breaks it raises
\* IntegrityError and stores nothing.
PositiveIntegerField(n) == n >= 0

\* line 87: Category.objects.get_or_create(name=category_name)
GetOrCreateCategory(categories, name) == categories \cup {name}

\* Book.__str__ (models.py lines 16-17)
BookStr(code, book) == <<code, book.title>>

\* lines 130-138: Book.objects.update_or_create(book_code=..., defaults=...)
UpdateOrCreate(bks, code, defaults) ==
    IF ~PositiveIntegerField(defaults.number_of_copies)
    THEN [books |-> bks, created |-> FALSE, raised |-> "IntegrityError"]
    ELSE [books   |-> (code :> defaults) @@ bks,
          created |-> code \notin DOMAIN bks,
          raised  |-> "none"]

\* lines 80-84: a row without a title
SkipNoTitle(s, n) ==
    [s EXCEPT !.skipped = @ + 1,
              !.skipped_rows = Append(@, <<n.category_name, n.book_code>>)]

\* lines 98-106: the fields a dry run reports as changing
Changes(existing, n, copies) ==
    {f \in {"title", "authors", "category", "number_of_copies"} :
        \/ f = "title" /\ existing.title # n.title
        \/ f = "authors" /\ existing.authors # n.authors
        \/ f = "category" /\ existing.category # n.category_name
        \/ f = "number_of_copies" /\ existing.number_of_copies # copies}

\* lines 95-127: the dry-run branch (s already holds the category of line 87)
DryRunRow(s, n, copies) ==
    IF n.book_code \in DOMAIN s.books
    THEN IF Changes(s.books[n.book_code], n, copies) # {}
         THEN [s EXCEPT !.updated = @ + 1,
                        !.updated_books = Append(@, <<n.book_code>>)]
         ELSE [s EXCEPT !.skipped = @ + 1]
    ELSE [s EXCEPT !.added = @ + 1]

\* lines 129-146: insert or update, then count
ApplyRow(s, n, copies) ==
    LET defaults == [category |-> n.category_name, title |-> n.title,
                     authors |-> n.authors, number_of_copies |-> copies]
        r == UpdateOrCreate(s.books, n.book_code, defaults)
    IN  IF r.raised # "none" THEN [s EXCEPT !.raised = r.raised]
        ELSE IF r.created
        THEN [s EXCEPT !.books = r.books, !.added = @ + 1]
        ELSE [s EXCEPT !.books = r.books, !.updated = @ + 1,
                       !.updated_books =
                           Append(@, BookStr(n.book_code, r.books[n.book_code]))]

\* lines 73-146: one iteration of "for row in reader", on the state
\* s = [cats, books, added, updated, skipped, updated_books, skipped_rows, raised]
ProcessRow(s, row, dry) ==
    LET n == Normalize(row)
        copies == CopiesOf(n.number_of_copies)
        withCat == [s EXCEPT !.cats = GetOrCreateCategory(@, n.category_name)]
    IN  IF n.title = <<>> THEN SkipNoTitle(s, n)
        ELSE IF dry THEN DryRunRow(withCat, n, copies)
        ELSE ApplyRow(withCat, n, copies)

\* lines 64-66: the counters and lists of a file, over the catalog c
FileState(c) ==
    [cats |-> c.cats, books |-> c.books, added |-> 0, updated |-> 0,
     skipped |-> 0, updated_books |-> <<>>, skipped_rows |-> <<>>,
     raised |-> "none"]

\* lines 154-167: what the file summary reports
FileSummary(s) ==
    [added |-> s.added, updated |-> s.updated, skipped |-> s.skipped,
     updated_books |-> s.updated_books, skipped_rows |-> s.skipped_rows]

\* lines 56-59: the totals before the first file
ZeroTotals ==
    [total_added |-> 0, total_updated |-> 0, total_skipped |-> 0,
     total_updated_books |-> <<>>, total_skipped_rows |-> <<>>]

\* Accumulate with the two lists assigned instead of extended
AccumulateAssign(t, f) ==
    [total_added         |-> t.total_added + f.added,
     total_updated       |-> t.total_updated + f.updated,
     total_skipped       |-> t.total_skipped + f.skipped,
     total_updated_books |-> f.updated_books,
     total_skipped_rows  |-> f.skipped_rows]

\* lines 169-174: accumulate a file's counts into the totals
Accumulate(t, f) ==
    [total_added         |-> t.total_added + f.added,
     total_updated       |-> t.total_updated + f.updated,
     total_skipped       |-> t.total_skipped + f.skipped,
     total_updated_books |-> t.total_updated_books \o f.updated_books,
     total_skipped_rows  |-> t.total_skipped_rows \o f.skipped_rows]

-----------------------------------------------------------------------------
(* The state of one invocation of the command                              *)

VARIABLES
    dry_run,              \* kwargs["dry_run"]
    n_files,              \* len(csv_files)
    pc,                   \* "loop", "rows", "done" or "crashed"
    header_ok,            \* the open file's header has the five columns
    input,                \* the entries of csv_files reached, with the rows read
    catalog0,             \* the catalog when the command started
    cats, books,          \* the Category and Book tables
    added, updated, skipped, updated_books, skipped_rows,
    total_added, total_updated, total_skipped,
    total_updated_books, total_skipped_rows,
    file_summaries        \* the file summaries written so far

fileVars == <<added, updated, skipped, updated_books, skipped_rows>>
totalVars == <<total_added, total_updated, total_skipped,
               total_updated_books, total_skipped_rows>>
vars == <<dry_run, n_files, pc, header_ok, input, catalog0, cats, books,
          fileVars, totalVars, file_summaries>>

\* the loop's state as the record ProcessRow works on
Cur ==
    [cats |-> cats, books |-> books, added |-> added, updated |-> updated,
     skipped |-> skipped, updated_books |-> updated_books,
     skipped_rows |-> skipped_rows, raised |-> "none"]

Totals ==
    [total_added |-> total_added, total_updated |-> total_updated,
     total_skipped |-> total_skipped,
     total_updated_books |-> total_updated_books,
     total_skipped_rows |-> total_skipped_rows]

RECURSIVE RowsRead(_)
RowsRead(files) ==
    IF files = <<>> THEN 0 ELSE Len(Head(files).rows) + RowsRead(Tail(files))

NewFile(kind) == [kind |-> kind, rows |-> <<>>, aborted |-> FALSE]

\* lines 36-59
Init ==
    /\ dry_run \in BOOLEAN
    /\ n_files \in 1..MaxFiles
    /\ pc = "loop"
    /\ header_ok = TRUE
    /\ input = <<>>
    /\ catalog0 \in InitialCatalogs
    /\ cats = catalog0.cats
    /\ books = catalog0.books
    /\ added = 0 /\ updated = 0 /\ skipped = 0
    /\ updated_books = <<>> /\ skipped_rows = <<>>
    /\ total_added = 0 /\ total_updated = 0 /\ total_skipped = 0
    /\ total_updated_books = <<>> /\ total_skipped_rows = <<>>
    /\ file_summaries = <<>>

\* lines 64-66
ResetFileCounters ==
    /\ added' = 0 /\ updated' = 0 /\ skipped' = 0
    /\ updated_books' = <<>> /\ skipped_rows' = <<>>

\* FileNotFound with the handler returning from handle() instead of
\* continuing with the next file
FileNotFoundReturns ==
    /\ pc = "loop" /\ Len(input) < n_files
    /\ ResetFileCounters
    /\ input' = Append(input, [NewFile("notfound") EXCEPT !.aborted = TRUE])
    /\ pc' = "done"
    /\ UNCHANGED <<dry_run, n_files, header_ok, catalog0, cats, books,
                   totalVars, file_summaries>>

\* lines 61-69, 147-149: open() raises FileNotFoundError
FileNotFound ==
    /\ pc = "loop" /\ Len(input) < n_files
    /\ ResetFileCounters
    /\ input' = Append(input, [NewFile("notfound") EXCEPT !.aborted = TRUE])
    /\ pc' = "loop"
    /\ UNCHANGED <<dry_run, n_files, header_ok, catalog0, cats, books,
                   totalVars, file_summaries>>

\* lines 61-70: the file opens; its header has the five columns or lacks one
OpenFile ==
    /\ pc = "loop" /\ Len(input) < n_files
    /\ ResetFileCounters
    /\ \E ok \in BOOLEAN :
          /\ header_ok' = ok
          /\ input' = Append(input, NewFile(IF ok THEN "ok" ELSE "missingcol"))
    /\ pc' = "rows"
    /\ UNCHANGED <<dry_run, n_files, catalog0, cats, books, totalVars,
                   file_summaries>>

\* lines 72-77, 150-152: row[...] raises KeyError on the first row of a file
\* whose header lacks a column
MissingColumn ==
    /\ pc = "rows" /\ ~header_ok
    /\ input' = [input EXCEPT ![Len(input)].aborted = TRUE]
    /\ pc' = "loop"
    /\ UNCHANGED <<dry_run, n_files, header_ok, catalog0, cats, books,
                   fileVars, totalVars, file_summaries>>

\* lines 72-146: the reader yields a row
ReadRow ==
    /\ pc = "rows" /\ header_ok
    /\ RowsRead(input) < MaxRows
    /\ \E row \in RawRows :
         LET s == ProcessRow(Cur, row, dry_run) IN
           /\ input' = [input EXCEPT ![Len(input)].rows = Append(@, row)]
           /\ cats' = s.cats /\ books' = s.books
           /\ added' = s.added /\ updated' = s.updated /\ skipped' = s.skipped
           /\ updated_books' = s.updated_books
           /\ skipped_rows' = s.skipped_rows
           /\ pc' = IF s.raised = "none" THEN "rows" ELSE "crashed"
    /\ UNCHANGED <<dry_run, n_files, header_ok, catalog0, totalVars,
                   file_summaries>>

\* lines 154-174: the reader is exhausted: file summary, then the totals
EndFile ==
    /\ pc = "rows"
    /\ LET t == Accumulate(Totals, FileSummary(Cur)) IN
         /\ total_added' = t.total_added
         /\ total_updated' = t.total_updated
         /\ total_skipped' = t.total_skipped
         /\ total_updated_books' = t.total_updated_books
         /\ total_skipped_rows' = t.total_skipped_rows
    /\ file_summaries' = Append(file_summaries, FileSummary(Cur))
    /\ pc' = "loop"
    /\ UNCHANGED <<dry_run, n_files, header_ok, input, catalog0, cats, books,
                   fileVars>>

\* lines 176-190: the loop is over
FinalSummary ==
    /\ pc = "loop" /\ Len(input) = n_files
    /\ pc' = "done"
    /\ UNCHANGED <<dry_run, n_files, header_ok, input, catalog0, cats,
                   books, fileVars, totalVars, file_summaries>>

Next ==
    \/ FileNotFound
    \/ OpenFile
    \/ MissingColumn
    \/ ReadRow
    \/ EndFile
    \/ FinalSummary

Spec == Init /\ [][Next]_vars

-----------------------------------------------------------------------------
(* The command as a function of its input, for the claims that compare     *)
(* two invocations                                                         *)

\* lines 72-146: the row loop over the rows of one file
RECURSIVE RunRows(_, _, _)
RunRows(s, rows, dry) ==
    IF rows = <<>> \/ s.raised # "none" THEN s
    ELSE RunRows(ProcessRow(s, Head(rows), dry), Tail(rows), dry)

\* lines 56-59: an invocation about to start on the catalog c
StartOn(c) ==
    [cats |-> c.cats, books |-> c.books, totals |-> ZeroTotals,
     crashed |-> FALSE]

\* lines 61-174: the file loop over a list of files
RECURSIVE RunFiles(_, _, _)
RunFiles(g, files, dry) ==
    IF files = <<>> \/ g.crashed THEN g
    ELSE LET f == Head(files)
             s == RunRows(FileState(g), f.rows, dry)
         IN  IF f.aborted
             THEN RunFiles(g, Tail(files), dry)
             ELSE IF s.raised # "none"
             THEN [g EXCEPT !.cats = s.cats, !.books = s.books,
                            !.crashed = TRUE]
             ELSE RunFiles([cats |-> s.cats, books |-> s.books,
                            totals |-> Accumulate(g.totals, FileSummary(s)),
                            crashed |-> FALSE],
                           Tail(files), dry)

-----------------------------------------------------------------------------
(* Vocabulary of the claims                                                *)

\* this step reads `row` from the open file
RowStep(row) ==
    /\ pc = "rows" /\ header_ok
    /\ input' = [input EXCEPT ![Len(input)].rows = Append(@, row)]

\* the row the last ReadRow step read, when the state is the one it left
HasLastRow == input # <<>> /\ input[Len(input)].rows # <<>>
LastRow == LET rows == input[Len(input)].rows IN rows[Len(rows)]

BlankTitle(row) == Strip(row.BOOK_TITLE) = <<>>

\* the Book a row with a title describes
BookOf(row) ==
    [category         |-> Strip(row.CATEGORY),
     title            |-> Strip(row.BOOK_TITLE),
     authors          |-> IF row.BOOK_AUTHOR = <<>> THEN None
                          ELSE Strip(row.BOOK_AUTHOR),
     number_of_copies |-> IF IsNumeral(Strip(row.NO_OF_COPIES))
                          THEN IntOf(Strip(row.NO_OF_COPIES)) ELSE 1]

CodeOf(row) == Strip(row.BOOK_CODE)

\* the rows read in this invocation, in processing order
RECURSIVE AllRows(_)
AllRows(files) ==
    IF files = <<>> THEN <<>> ELSE Head(files).rows \o AllRows(Tail(files))

Ended == pc \in {"done", "crashed"}

-----------------------------------------------------------------------------
(* Claims                                                                  *)

\* C1: a dry run never changes the catalog: in every state of a dry run the
\* Category table and the Book table are what they were when it started.
C1_PreviewNeverMutates ==
    dry_run => (cats = catalog0.cats /\ books = catalog0.books)

\* the row describes exactly the Book stored under its code
IdenticalToStored(row) ==
    /\ ~BlankTitle(row)
    /\ CodeOf(row) \in DOMAIN books
    /\ books[CodeOf(row)] = BookOf(row)

\* C2: without --dry-run, a row identical to the stored Book leaves the Book
\* unchanged, adds exactly 1 to skipped and leaves updated and added alone.
C2_IdenticalRowIsSkipped ==
    [][\A row \in RawRows :
          (RowStep(row) /\ ~dry_run /\ IdenticalToStored(row))
              => /\ books' = books
                 /\ skipped' = skipped + 1
                 /\ updated' = updated
                 /\ added' = added]_vars

\* C3: without --dry-run, a row with a title whose book_code is not stored
\* adds exactly one Book under that code with the row's normalized values,
\* adds exactly 1 to added and leaves updated and skipped alone.
C3_NewCodeIsAdded ==
    [][\A row \in RawRows :
          (RowStep(row) /\ ~dry_run /\ ~BlankTitle(row)
              /\ CodeOf(row) \notin DOMAIN books)
              => /\ books' = (CodeOf(row) :> BookOf(row)) @@ books
                 /\ added' = added + 1
                 /\ updated' = updated
                 /\ skipped' = skipped]_vars

\* C4: in both modes, a row whose title is empty or only whitespace creates
\* and updates no Book, adds exactly 1 to skipped, appends its (category
\* name, book code) to skipped_rows, and the loop goes on to the next row.
C4_BlankTitleIsSkipped ==
    [][\A row \in RawRows :
          (RowStep(row) /\ BlankTitle(row))
              => /\ books' = books
                 /\ skipped' = skipped + 1
                 /\ skipped_rows' =
                       Append(skipped_rows,
                              <<Strip(row.CATEGORY), Strip(row.BOOK_CODE)>>)
                 /\ added' = added /\ updated' = updated
                 /\ pc' = "rows"]_vars

\* a whitespace-only title has just been skipped, without --dry-run
C4_Witness ==
    /\ pc = "rows" /\ ~dry_run /\ HasLastRow
    /\ LastRow.BOOK_TITLE = <<" ">>
    /\ skipped_rows # <<>>
    /\ skipped_rows[Len(skipped_rows)] = <<<<"F">>, <<"1">>>>

\* C5: every stored Book has a number_of_copies that is a natural number,
\* and a row whose NO. OF COPIES is empty or not a numeral is stored with 1.
C5_CopiesNonNegative ==
    /\ \A code \in DOMAIN books : books[code].number_of_copies \in Nat
    /\ (pc = "rows" /\ ~dry_run /\ HasLastRow /\ ~BlankTitle(LastRow)
          /\ ~IsNumeral(Strip(LastRow.NO_OF_COPIES)))
         => /\ CodeOf(LastRow) \in DOMAIN books
            /\ books[CodeOf(LastRow)].number_of_copies = 1

\* a row with a non-numeric NO. OF COPIES has been stored, and a row with a
\* negative numeral has been read
C5_Witness ==
    /\ ~dry_run /\ HasLastRow /\ pc = "crashed"
    /\ LastRow.NO_OF_COPIES = <<"-", "2">>
    /\ \E i \in 1..Len(AllRows(input)) :
          /\ AllRows(input)[i].NO_OF_COPIES = <<"x">>
          /\ ~BlankTitle(AllRows(input)[i])
    /\ \E code \in DOMAIN books : books[code].number_of_copies = 1

\* C6: a dry run followed by a real run over the same input ends with the
\* same Category and Book tables as the real run alone from the catalog the
\* dry run started on.
C6_PreviewThenApplyEqualsApply ==
    (dry_run /\ Ended) =>
        LET after == RunFiles(StartOn([cats |-> cats, books |-> books]),
                              input, FALSE)
            alone == RunFiles(StartOn(catalog0), input, FALSE)
        IN  after.cats = alone.cats /\ after.books = alone.books

RECURSIVE SumOf(_, _)
SumOf(summaries, field) ==
    IF summaries = <<>> THEN 0
    ELSE Head(summaries)[field] + SumOf(Tail(summaries), field)

RECURSIVE ConcatOf(_, _)
ConcatOf(summaries, field) ==
    IF summaries = <<>> THEN <<>>
    ELSE Head(summaries)[field] \o ConcatOf(Tail(summaries), field)

\* C7: at the final summary the three totals are the sums of the file
\* summaries' counts, and the two total lists are the file summaries' lists
\* concatenated in file order.
C7_TotalsAreSums ==
    pc = "done" =>
        /\ total_added = SumOf(file_summaries, "added")
        /\ total_updated = SumOf(file_summaries, "updated")
        /\ total_skipped = SumOf(file_summaries, "skipped")
        /\ total_updated_books = ConcatOf(file_summaries, "updated_books")
        /\ total_skipped_rows = ConcatOf(file_summaries, "skipped_rows")

\* two files were summarised, each with an updated Book, one with a
\* skipped row
C7_Witness ==
    /\ pc = "done" /\ Len(file_summaries) = 2
    /\ file_summaries[1].updated_books # <<>>
    /\ file_summaries[2].updated_books # <<>>
    /\ total_skipped_rows # <<>>

\* the files of the list that raised neither FileNotFoundError nor KeyError
Kept(files) == SelectSeq(files, LAMBDA f : ~f.aborted)

LastFor(rows, code) ==
    rows[CHOOSE i \in 1..Len(rows) :
            /\ CodeOf(rows[i]) = code /\ ~BlankTitle(rows[i])
            /\ \A j \in (i + 1)..Len(rows) :
                  ~(CodeOf(rows[j]) = code /\ ~BlankTitle(rows[j]))]

\* C9: after a real run, every book_code that occurs in a row with a title
\* is stored, with the normalized values of the last such row.
C9_LastRowWins ==
    (~dry_run /\ Ended) =>
        \A i \in 1..Len(AllRows(input)) :
            LET row == AllRows(input)[i] IN
              ~BlankTitle(row) =>
                  /\ CodeOf(row) \in DOMAIN books
                  /\ books[CodeOf(row)]
                        = BookOf(LastFor(AllRows(input), CodeOf(row)))

\* C10: the added, updated and skipped counts a dry run reports for a file
\* are the counts of a real run of that file from the same catalog (stated
\* for the files a real run reads to the end).
C10_PreviewCountsEqualApplyCounts ==
    (dry_run /\ pc = "rows" /\ header_ok /\ Len(input) = 1) =>
        LET real == RunRows(FileState(catalog0), input[1].rows, FALSE) IN
          real.raised = "none" =>
              <<real.added, real.updated, real.skipped>>
                  = <<added, updated, skipped>>

====
